---- MODULE Spec2Model ----
\* PSY-Q "LNK\x02" object decoder of src/PSX/psyqobj.py (OBJView.parse and the
\* record decoders it dispatches to), as a state machine over one input buffer.
EXTENDS Integers, Sequences, FiniteSets, TLC

\* ---------------------------------------------------------------- bounds
MaxRecords == 3
MaxCut == 2

MaxSynSections == 2
MaxSynSymbols == 2

\* ------------------------------------------------------------ enum values
\* PsyqOpcode
END == 0
BYTES == 2
SWITCH == 6
ZEROES == 8
RELOCATION == 10
EXPORTED_SYMBOL == 12
IMPORTED_SYMBOL == 14
SECTION == 16
PROGRAMTYPE == 46

\* PsyqRelocType
REL32_BE == 8
REL32 == 16
REL26 == 74
HI16 == 82
LO16 == 84
REL26_BE == 92
HI16_BE == 96
LO16_BE == 98
GPREL16 == 100

\* PsyqExprOpcode
VALUE == 0
SYMBOL == 2
SECTION_BASE == 4
SECTION_START == 12
SECTION_END == 22
ADD == 44
SUB == 46
DIV == 50

\* Width of the "LNK\x02" header that parse() skips.
HeaderLen == 4

\* objFile.program_type is an attribute that does not exist until a
\* PROGRAMTYPE record assigns it.
NoProgramType == -1

VARIABLES
    data,      \* self.data: the input buffer, a sequence of bytes
    index,     \* self.index: the cursor position (0-based)
    objFile,   \* self.objFile: sections, imports, exports, relocations,
               \* current_section, program_type
    pc,        \* "start" | "scan" | "done" | "error": where parse() is
    err,       \* the exception that ended parse(), "" when none
    trace,     \* the opcodes resolve_opcode has read: <<[pos, op], ...>>
    first      \* what an earlier OBJView over the same buffer ended with

vars == <<data, index, objFile, pc, err, trace, first>>

\* ------------------------------------------------------------- the inputs
Header == <<76, 78, 75, 2>>

\* Byte strings the input buffers are built from: whole records of every
\* kind the dispatcher knows, and bytes it does not know.
Chunks ==
    { <<END>>,
      <<PROGRAMTYPE, 7>>,
      <<PROGRAMTYPE, 8>>,
      <<SECTION, 0, 0, 0, 0, 8, 1, 97>>,
      <<SECTION, 1, 0, 1, 0, 4, 0>>,
      <<SECTION, 0, 0, 1, 0, 4, 1, 100>>,
      <<IMPORTED_SYMBOL, 3, 0, 1, 98>>,
      <<IMPORTED_SYMBOL, 1, 0, 0>>,
      <<EXPORTED_SYMBOL, 4, 0, 5, 0, 9, 0, 0, 0, 1, 99>>,
      <<SWITCH, 0, 0>>,
      <<SWITCH, 1, 0>>,
      <<BYTES, 2, 0, 5, 5>>,
      <<BYTES, 0, 0>>,
      <<RELOCATION, REL32, 1, 0, SYMBOL, 3, 0>>,
      <<RELOCATION, 3, 0, 0, VALUE, 1, 0, 0, 0>>,
      <<ZEROES>> }

RECURSIVE Flatten(_)
Flatten(chunks) ==
    IF chunks = <<>> THEN <<>> ELSE Head(chunks) \o Flatten(Tail(chunks))

RecordSeqs == UNION { [1..n -> Chunks] : n \in 0..MaxRecords }

\* The buffers a parse is run on: the header, up to MaxRecords chunks, with
\* up to MaxCut bytes missing at the end (never cutting into the header,
\* which is_valid_for_data has accepted).
Max(a, b) == IF a > b THEN a ELSE b
Cut(buf, c) == SubSeq(buf, 1, Max(HeaderLen, Len(buf) - c))
Buffers == { Cut(Header \o Flatten(rs), c) : rs \in RecordSeqs, c \in 0..MaxCut }

\* ------------------------------------------------------ primitive readers
Min(a, b) == IF a < b THEN a ELSE b

\* self.data[i:i+length]: a slice, cut short at the end of the buffer.
Slice(i, length) ==
    IF i >= Len(data) THEN <<>> ELSE SubSeq(data, i + 1, Min(i + length, Len(data)))

\* int.from_bytes(bs): big-endian, 0 for the empty string.
RECURSIVE IntFromBytes(_)
IntFromBytes(bs) ==
    IF bs = <<>> THEN 0
    ELSE IntFromBytes(SubSeq(bs, 1, Len(bs) - 1)) * 256 + bs[Len(bs)]

\* struct.unpack("<H", bs)[0] and struct.unpack("<I", bs)[0]; both raise
\* struct.error unless bs has exactly the width asked for.
UnpackOk(bs, width) == Len(bs) = width
UnpackH(bs) == bs[1] + 256 * bs[2]
UnpackI(bs) == bs[1] + 256 * bs[2] + 65536 * bs[3] + 16777216 * bs[4]

\* --------------------------------------------------------- record decoders
\* Every decoder is given i, the cursor position it starts at, and yields
\* [err, index, value]: the exception it raises ("" when none), the cursor
\* position it leaves, and what it returns.
Result(e, i, v) == [err |-> e, index |-> i, value |-> v]

PsyqSection(idx, group, alignment, name) ==
    [index |-> idx, group |-> group, alignment |-> alignment, name |-> name,
     offset |-> 0, size |-> 0]

PsyqImportedSymbol(idx, name) == [index |-> idx, name |-> name]

PsyqExportedSymbol(idx, section_index, offset, name) ==
    [index |-> idx, section_index |-> section_index, offset |-> offset,
     name |-> name]

PsyqObjFile ==
    [sections |-> <<>>, imports |-> <<>>, exports |-> <<>>,
     relocations |-> <<>>, current_section |-> 0,
     program_type |-> NoProgramType]

\* get_current_section raises KeyError when sections has no such key.
HasCurrentSection == objFile.current_section \in DOMAIN objFile.sections
get_current_section == objFile.sections[objFile.current_section]

parse_program_type(i) ==
    LET value == IntFromBytes(Slice(i, 1)) IN
    IF value # 7 /\ value # 9
    THEN Result("NameError", i + 1, NoProgramType)
    ELSE Result("", i + 1, value)

parse_section(i) ==
    LET w1 == Slice(i, 2)
        w2 == Slice(i + 2, 2)
        alignment == IntFromBytes(Slice(i + 4, 1))
        name_len == IntFromBytes(Slice(i + 5, 1))
        name == Slice(i + 6, name_len)
    IN  IF ~UnpackOk(w1, 2) THEN Result("struct.error", i + 2, <<>>)
        ELSE IF ~UnpackOk(w2, 2) THEN Result("struct.error", i + 4, <<>>)
        ELSE Result("", i + 6 + name_len,
                    PsyqSection(UnpackH(w1), UnpackH(w2), alignment, name))

parse_imported_symbol(i) ==
    LET idx == Slice(i, 2)
        name_len == IntFromBytes(Slice(i + 2, 1))
        name == Slice(i + 3, name_len)
    IN  Result("", i + 3 + name_len, PsyqImportedSymbol(idx, name))

\* parse_exported_symbol looking its section up at decode time: KeyError
\* when no section with that index has been defined yet.
parse_exported_symbol_Checked(i) ==
    LET idx == Slice(i, 2)
        section_index == Slice(i + 2, 2)
        w == Slice(i + 4, 4)
        name_len == IntFromBytes(Slice(i + 8, 1))
        name == Slice(i + 9, name_len)
    IN  IF ~UnpackOk(w, 4) THEN Result("struct.error", i + 8, <<>>)
        ELSE IF IntFromBytes(<<section_index[2], section_index[1]>>)
                    \notin DOMAIN objFile.sections
             THEN Result("KeyError", i + 9 + name_len, <<>>)
        ELSE Result("", i + 9 + name_len,
                    PsyqExportedSymbol(idx, section_index, UnpackI(w), name))

parse_exported_symbol(i) ==
    LET idx == Slice(i, 2)
        section_index == Slice(i + 2, 2)
        w == Slice(i + 4, 4)
        name_len == IntFromBytes(Slice(i + 8, 1))
        name == Slice(i + 9, name_len)
    IN  IF ~UnpackOk(w, 4) THEN Result("struct.error", i + 8, <<>>)
        ELSE Result("", i + 9 + name_len,
                    PsyqExportedSymbol(idx, section_index, UnpackI(w), name))

parse_switch(i) ==
    LET w == Slice(i, 2) IN
    IF ~UnpackOk(w, 2) THEN Result("struct.error", i + 2, 0)
    ELSE Result("", i + 2, UnpackH(w))

\* parse_bytes with lines 192 and 193 exchanged: the offset is taken after
\* the payload has been skipped.
BytesSection_AfterPayload(section, size, i) ==
    [section EXCEPT !.size = size, !.offset = i + size]

\* The section parse_bytes leaves behind: size, then offset = self.index
\* as it is after the size field has been read.
BytesSection(section, size, i) == [section EXCEPT !.size = size, !.offset = i]

\* Yields the sections map: the current section is updated in place.
parse_bytes(i) ==
    LET w == Slice(i, 2) IN
    IF ~HasCurrentSection THEN Result("KeyError", i, objFile.sections)
    ELSE IF ~UnpackOk(w, 2) THEN Result("struct.error", i + 2, objFile.sections)
    ELSE Result("", i + 2 + UnpackH(w),
                [objFile.sections EXCEPT ![objFile.current_section] =
                    BytesSection(get_current_section, UnpackH(w), i + 2)])

\* Builds a PsyqRelocation (reloc_type, offset) in a local that is dropped
\* on return: objFile.relocations is read, never appended to, and nothing
\* after the 16-bit offset is read.
parse_relocation(i) ==
    LET reloc_type == IntFromBytes(Slice(i, 1))
        w == Slice(i + 1, 2)
    IN  IF ~HasCurrentSection THEN Result("KeyError", i, objFile.relocations)
        ELSE IF ~UnpackOk(w, 2)
             THEN Result("struct.error", i + 3, objFile.relocations)
        ELSE Result("", i + 3, objFile.relocations)

\* ------------------------------------------------------------ the driver
\* No OBJView has parsed the buffer before this one.
NoEarlierView == [parsed |-> FALSE, objFile |-> PsyqObjFile, err |-> ""]

Init ==
    /\ data \in Buffers
    /\ index = 0
    /\ objFile = PsyqObjFile
    /\ pc = "start"
    /\ err = ""
    /\ trace = <<>>
    /\ first = NoEarlierView

\* parse(): skip the header and enter the loop.
Parse ==
    /\ pc = "start"
    /\ index' = index + HeaderLen
    /\ pc' = "scan"
    /\ UNCHANGED <<data, objFile, err, trace, first>>

\* resolve_opcode reads the opcode byte at the cursor.
Opcode == IntFromBytes(Slice(index, 1))

\* One turn of the loop for opcode op, whose decoder yields r and whose
\* branch of resolve_opcode stores obj when the decoder returns.
Dispatch(op, r, obj) ==
    /\ pc = "scan"
    /\ index < Len(data)
    /\ Opcode = op
    /\ trace' = Append(trace, [pos |-> index, op |-> op])
    /\ index' = r.index
    /\ err' = r.err
    /\ pc' = IF r.err = "" THEN "scan" ELSE "error"
    /\ objFile' = IF r.err = "" THEN obj ELSE objFile
    /\ UNCHANGED <<data, first>>

ResolveProgramType ==
    LET r == parse_program_type(index + 1) IN
    Dispatch(PROGRAMTYPE, r, [objFile EXCEPT !.program_type = r.value])

\* resolve_opcode updating an entry that exists instead of replacing it:
\* the offset and size a BYTES record gave the section survive.
ResolveSection_KeepSpan ==
    LET r == parse_section(index + 1) IN
    Dispatch(SECTION, r,
             [objFile EXCEPT !.sections =
                 [k \in DOMAIN objFile.sections \cup {r.value.index} |->
                     IF k # r.value.index THEN objFile.sections[k]
                     ELSE IF k \in DOMAIN objFile.sections
                          THEN [r.value EXCEPT
                                   !.offset = objFile.sections[k].offset,
                                   !.size = objFile.sections[k].size]
                     ELSE r.value]])

ResolveSection ==
    LET r == parse_section(index + 1) IN
    Dispatch(SECTION, r,
             [objFile EXCEPT !.sections =
                 [k \in DOMAIN objFile.sections \cup {r.value.index} |->
                     IF k = r.value.index THEN r.value ELSE objFile.sections[k]]])

\* resolve_opcode keeping one import per index: a record whose index is
\* already in the list replaces that entry instead of being appended.
ResolveImportedSymbol_ByIndex ==
    LET r == parse_imported_symbol(index + 1)
        old == { i \in 1..Len(objFile.imports) :
                   objFile.imports[i].index = r.value.index }
    IN  Dispatch(IMPORTED_SYMBOL, r,
                 [objFile EXCEPT !.imports =
                     IF old = {} THEN Append(objFile.imports, r.value)
                     ELSE [i \in 1..Len(objFile.imports) |->
                             IF i \in old THEN r.value ELSE objFile.imports[i]]])

ResolveImportedSymbol ==
    LET r == parse_imported_symbol(index + 1) IN
    Dispatch(IMPORTED_SYMBOL, r,
             [objFile EXCEPT !.imports = Append(objFile.imports, r.value)])

ResolveExportedSymbol ==
    LET r == parse_exported_symbol(index + 1) IN
    Dispatch(EXPORTED_SYMBOL, r,
             [objFile EXCEPT !.exports = Append(objFile.exports, r.value)])

ResolveSwitch ==
    LET r == parse_switch(index + 1) IN
    Dispatch(SWITCH, r, [objFile EXCEPT !.current_section = r.value])

ResolveBytes ==
    LET r == parse_bytes(index + 1) IN
    Dispatch(BYTES, r, [objFile EXCEPT !.sections = r.value])

ResolveRelocation ==
    LET r == parse_relocation(index + 1) IN
    Dispatch(RELOCATION, r, [objFile EXCEPT !.relocations = r.value])

\* The opcodes resolve_opcode has a branch for. END (0) is not among them.
Handled ==
    {PROGRAMTYPE, SECTION, IMPORTED_SYMBOL, EXPORTED_SYMBOL, SWITCH, BYTES,
     RELOCATION}

\* resolve_opcode looking at the opcode byte without consuming it when no
\* branch matches.
ResolveOther_Peek ==
    /\ Opcode \notin Handled
    /\ Dispatch(Opcode, Result("", index, <<>>), objFile)

\* No branch matches: the opcode byte has been read and nothing else happens.
ResolveOther ==
    /\ Opcode \notin Handled
    /\ Dispatch(Opcode, Result("", index + 1, <<>>), objFile)

resolve_opcode ==
    \/ ResolveProgramType
    \/ ResolveSection
    \/ ResolveImportedSymbol
    \/ ResolveExportedSymbol
    \/ ResolveSwitch
    \/ ResolveBytes
    \/ ResolveRelocation
    \/ ResolveOther

\* The loop condition self.index < self.data.length is false: parse returns.
ParseReturn ==
    /\ pc = "scan"
    /\ index >= Len(data)
    /\ pc' = "done"
    /\ UNCHANGED <<data, index, objFile, err, trace, first>>

Next == Parse \/ resolve_opcode \/ ParseReturn

Spec == Init /\ [][Next]_vars

TypeOK ==
    /\ pc \in {"start", "scan", "done", "error"}
    /\ err \in {"", "KeyError", "struct.error", "NameError"}
    /\ index \in Nat
    /\ (pc = "error") = (err # "")

\* ------------------------------------------------------------- the claims
Last == trace[Len(trace)]
KnownOpcodes == Handled \cup {END}
RelocTypes ==
    {REL32_BE, REL32, REL26, HI16, LO16, REL26_BE, HI16_BE, LO16_BE, GPREL16}
Failed == pc = "error"

\* C1: an opcode byte outside 0, 2, 6, 10, 12, 14, 16, 46 fails the parse:
\* it is the last opcode the dispatcher reads and the parse is in error.
C1_UnknownOpcodeFails ==
    \A k \in 1..Len(trace) :
        trace[k].op \notin KnownOpcodes => (k = Len(trace) /\ Failed)

\* C2: a BYTES or RELOCATION record read before any SWITCH record fails the
\* parse, whichever SECTION records came before it.
C2_NoSwitchNoCurrentSection ==
    \A k \in 1..Len(trace) :
        (/\ trace[k].op \in {BYTES, RELOCATION}
         /\ \A j \in 1..(k - 1) : trace[j].op # SWITCH)
        => (k = Len(trace) /\ Failed)

\* C3: the cursor position never exceeds the length of the buffer.
C3_PositionWithinBuffer == 0 <= index /\ index <= Len(data)

\* C4: once END has been read nothing more is read or dispatched and the
\* ObjectFile stays as it was when END was read.
C4_EndStopsParse ==
    [][(trace # <<>> /\ Last.op = END)
         => (trace' = trace /\ index' = index /\ objFile' = objFile)]_vars

\* C5: a BYTES record at position p with size field s, read while the current
\* section exists, sets that section's offset to p+3 and its size to s,
\* leaves the cursor at p+3+s and changes no other section.
C5_BytesSetsOffsetAndSize ==
    [][(/\ pc = "scan"
        /\ index < Len(data)
        /\ Opcode = BYTES
        /\ HasCurrentSection
        /\ Len(Slice(index + 1, 2)) = 2)
       => LET p == index
              s == data[p + 2] + 256 * data[p + 3]
              cur == objFile.current_section
          IN  /\ pc' = "scan"
              /\ index' = p + 3 + s
              /\ DOMAIN objFile'.sections = DOMAIN objFile.sections
              /\ objFile'.sections[cur].offset = p + 3
              /\ objFile'.sections[cur].size = s
              /\ objFile'.sections[cur].index = objFile.sections[cur].index
              /\ objFile'.sections[cur].name = objFile.sections[cur].name
              /\ \A k \in DOMAIN objFile.sections \ {cur} :
                     objFile'.sections[k] = objFile.sections[k]]_vars

\* C5 witness: a BYTES record with a non-empty payload has been decoded into
\* one of two sections, and the other section is untouched.
C5_Witness ==
    /\ trace # <<>>
    /\ Last.op = BYTES
    /\ ~Failed
    /\ HasCurrentSection
    /\ get_current_section.size > 0
    /\ get_current_section.offset = Last.pos + 3
    /\ \E k \in DOMAIN objFile.sections : k # objFile.current_section

\* The positions of the first token of the target expression of the
\* RELOCATION record at p: its opcode at p+4 and the immediate it carries
\* (32 bits for VALUE, 16 bits for the symbol and section references).
FirstExprToken(p) ==
    LET op == IntFromBytes(Slice(p + 4, 1))
        width == IF op = VALUE THEN 5
                 ELSE IF op \in {SYMBOL, SECTION_BASE, SECTION_START, SECTION_END}
                      THEN 3
                 ELSE 1
    IN  (p + 4)..(p + 3 + width)

\* The RELOCATION records decoded without an error, the first token of
\* their target expression lying within the buffer.
DecodedRelocations ==
    { k \in 1..Len(trace) :
        /\ trace[k].op = RELOCATION
        /\ ~(k = Len(trace) /\ Failed)
        /\ \A q \in FirstExprToken(trace[k].pos) : q < Len(data) }

\* C6: the relocation list holds one entry per RELOCATION record decoded.
C6_OneRelocationPerRecord ==
    Len(objFile.relocations) = Cardinality(DecodedRelocations)

\* C7: no byte of a relocation's target expression is read by the dispatcher
\* as a record opcode.
C7_ExpressionConsumed ==
    \A k \in 1..Len(trace) :
        trace[k].op = RELOCATION =>
            \A j \in 1..Len(trace) : trace[j].pos \notin FirstExprToken(trace[k].pos)

\* C8: a RELOCATION record whose type byte is not a known relocation kind
\* fails the parse.
C8_UnknownRelocTypeFails ==
    \A k \in 1..Len(trace) :
        (/\ trace[k].op = RELOCATION
         /\ IntFromBytes(Slice(trace[k].pos + 1, 1)) \notin RelocTypes)
        => (k = Len(trace) /\ Failed)

\* C9: a PROGRAMTYPE record with a value other than 7 and 9 does not fail the
\* parse: the value is stored and the cursor is right after the value byte.
C9_UnknownProgramTypeKept ==
    (/\ trace # <<>>
     /\ Last.op = PROGRAMTYPE
     /\ Last.pos + 1 < Len(data)
     /\ data[Last.pos + 2] \notin {7, 9})
    => (/\ ~Failed
        /\ objFile.program_type = data[Last.pos + 2]
        /\ index = Last.pos + 2)

\* C10: a parse that ends without an error has met no decoder-level error:
\* no read ran past the end of the buffer and no unknown opcode was read.
C10_CompleteOrError ==
    pc = "done" =>
        (/\ index <= Len(data)
         /\ \A k \in 1..Len(trace) : trace[k].op \in KnownOpcodes)

\* ------------------------------------------------ the one-section scenario
\* "LNK\x02" + PROGRAMTYPE(7) + SECTION(index 0, name ".text") + SWITCH(0) +
\* BYTES(size 4, 4 filler bytes) + END, for every group, alignment and filler
\* of a small set (the filler bytes include opcode values).
DotText == <<46, 116, 101, 120, 116>>
FillerBytes == {END, IMPORTED_SYMBOL}
ScenarioBuffers ==
    { Header \o <<PROGRAMTYPE, 7>>
             \o <<SECTION, 0, 0, g, 0, a, Len(DotText)>> \o DotText
             \o <<SWITCH, 0, 0>>
             \o <<BYTES, 4, 0>> \o f
             \o <<END>> :
        g \in {0, 1}, a \in {1, 4, 8}, f \in [1..4 -> FillerBytes] }

InitScenario ==
    /\ data \in ScenarioBuffers
    /\ index = 0
    /\ objFile = PsyqObjFile
    /\ pc = "start"
    /\ err = ""
    /\ trace = <<>>
    /\ first = NoEarlierView

\* The branches of resolve_opcode the scenario's records reach.
NextScenario ==
    \/ Parse
    \/ ResolveProgramType
    \/ ResolveSection
    \/ ResolveSwitch
    \/ ResolveBytes
    \/ ResolveOther
    \/ ParseReturn

SpecScenario == InitScenario /\ [][NextScenario]_vars

\* What the scenario's parse ends with, but for the section's offset.
ScenarioResult ==
    /\ DOMAIN objFile.sections = {0}
    /\ objFile.sections[0].index = 0
    /\ objFile.sections[0].name = DotText
    /\ objFile.sections[0].size = 4
    /\ objFile.imports = <<>>
    /\ objFile.exports = <<>>
    /\ objFile.relocations = <<>>
    /\ objFile.program_type = 7

\* C11 as stated: the scenario ends with one section of offset 9 and size 4,
\* no imports, exports or relocations, and program_type 7.
C11_ScenarioOffset9 ==
    pc = "done" => (ScenarioResult /\ objFile.sections[0].offset = 9)

\* C11 amended: the scenario never fails and ends with one section of
\* offset 24 (the position right after the BYTES size field: 4 header bytes,
\* 2 of PROGRAMTYPE, 12 of SECTION, 3 of SWITCH, 3 of BYTES opcode and size)
\* and size 4, no imports, exports or relocations, and program_type 7.
C11_ScenarioOffset24 ==
    /\ ~Failed
    /\ pc = "done" => (ScenarioResult /\ objFile.sections[0].offset = 24)

\* C11 witness: the scenario has been parsed to its end, END included.
C11_Witness ==
    /\ pc = "done"
    /\ data \in ScenarioBuffers
    /\ Len(trace) = 5
    /\ Last = [pos |-> 28, op |-> END]
    /\ index = Len(data)

\* ------------------------------------------------------ well-formed streams
\* The chunks that are whole records the format defines (END included): no
\* unknown opcode, no unknown relocation type.
WellFormedChunks ==
    { c \in Chunks :
        /\ c[1] \in KnownOpcodes
        /\ c[1] = RELOCATION => c[2] \in RelocTypes }

WellFormedBuffers ==
    { Header \o Flatten(rs) :
        rs \in UNION { [1..n -> WellFormedChunks] : n \in 0..MaxRecords } }

\* C12: a parse of a well-formed stream that ends without error started
\* dispatching at offset 4 and leaves the cursor exactly at the end of the
\* buffer, or right after an END opcode.
C12_WellFormedConsumedExactly ==
    (data \in WellFormedBuffers /\ pc = "done")
    => (/\ trace # <<>> => trace[1].pos = HeaderLen
        /\ \/ index = Len(data)
           \/ trace # <<>> /\ Last.op = END /\ index = Last.pos + 1)

\* ---------------------------------------------------------------- round trip
\* Synthetic object files: a program type, sections in insertion order (each
\* with a payload size and, when it has a payload, possibly one relocation
\* into it), imports and exports.
SynSection ==
    { sec \in [index : {0, 1}, group : {0}, alignment : {4}, name : {<<97>>},
               size : {0, 2}, reloc : BOOLEAN] : sec.reloc => sec.size > 0 }
SynImport == { [index |-> 3, name |-> <<98>>], [index |-> 1, name |-> <<>>] }
SynExport == { [index |-> 4, section_index |-> 0, offset |-> 1, name |-> <<99>>] }

SeqsUpTo(S, n) == UNION { [1..k -> S] : k \in 0..n }

SynObjFiles ==
    { o \in [program_type : {7, 9},
             sections : SeqsUpTo(SynSection, MaxSynSections),
             imports : SeqsUpTo(SynImport, MaxSynSymbols),
             exports : SeqsUpTo(SynExport, 1)] :
        \A i, j \in 1..Len(o.sections) :
            o.sections[i].index = o.sections[j].index => i = j }

\* The encoder: one record per item, opcode-tagged as the decoders read them.
SectionRecord(sec) ==
    <<SECTION, sec.index, 0, sec.group, 0, sec.alignment, Len(sec.name)>>
        \o sec.name
ImportRecord(imp) == <<IMPORTED_SYMBOL, imp.index, 0, Len(imp.name)>> \o imp.name
ExportRecord(exp) ==
    <<EXPORTED_SYMBOL, exp.index, 0, exp.section_index, 0, exp.offset, 0, 0, 0,
      Len(exp.name)>> \o exp.name
\* SWITCH to the section, its BYTES payload, then its relocation: REL32 at
\* raw offset 1 with target expression SYMBOL 3.
PayloadRecords(sec) ==
    IF sec.size = 0 THEN <<>>
    ELSE <<SWITCH, sec.index, 0, BYTES, sec.size, 0>>
           \o [i \in 1..sec.size |-> 5]
           \o (IF sec.reloc THEN <<RELOCATION, REL32, 1, 0, SYMBOL, 3, 0>>
               ELSE <<>>)

EncodeSections(secs) == Flatten([i \in 1..Len(secs) |-> SectionRecord(secs[i])])
EncodeImports(imps) == Flatten([i \in 1..Len(imps) |-> ImportRecord(imps[i])])
EncodeExports(exps) == Flatten([i \in 1..Len(exps) |-> ExportRecord(exps[i])])
EncodePayloads(secs) == Flatten([i \in 1..Len(secs) |-> PayloadRecords(secs[i])])

\* Everything the encoder emits before the payloads.
EncodeHead(o) ==
    Header \o <<PROGRAMTYPE, o.program_type>>
           \o EncodeSections(o.sections)
           \o EncodeImports(o.imports)
           \o EncodeExports(o.exports)

Encode(o) == EncodeHead(o) \o EncodePayloads(o.sections) \o <<END>>

\* Where the encoder puts the payload of the k-th section: after the head,
\* the payload records of the sections before it, and SWITCH + BYTES + size.
PayloadOffset(o, k) ==
    IF o.sections[k].size = 0 THEN 0
    ELSE Len(EncodeHead(o))
           + Len(EncodePayloads(SubSeq(o.sections, 1, k - 1))) + 6

\* The sections of o that carry a relocation, in encoding order.
RelocSections(o) == { k \in 1..Len(o.sections) : o.sections[k].reloc }

\* The parsed model equals o: section map, import list, export list,
\* relocation list and program type (symbol indices compared as u16).
RoundTripEqual(o) ==
    /\ objFile.program_type = o.program_type
    /\ DOMAIN objFile.sections = { o.sections[k].index : k \in 1..Len(o.sections) }
    /\ \A k \in 1..Len(o.sections) :
          objFile.sections[o.sections[k].index] =
              [index |-> o.sections[k].index, group |-> o.sections[k].group,
               alignment |-> o.sections[k].alignment, name |-> o.sections[k].name,
               offset |-> PayloadOffset(o, k), size |-> o.sections[k].size]
    /\ Len(objFile.imports) = Len(o.imports)
    /\ \A i \in 1..Len(o.imports) :
          /\ UnpackH(objFile.imports[i].index) = o.imports[i].index
          /\ objFile.imports[i].name = o.imports[i].name
    /\ Len(objFile.exports) = Len(o.exports)
    /\ \A i \in 1..Len(o.exports) :
          /\ UnpackH(objFile.exports[i].index) = o.exports[i].index
          /\ UnpackH(objFile.exports[i].section_index) = o.exports[i].section_index
          /\ objFile.exports[i].offset = o.exports[i].offset
          /\ objFile.exports[i].name = o.exports[i].name
    /\ Len(objFile.relocations) = Cardinality(RelocSections(o))
    /\ \A i \in 1..Len(objFile.relocations) :
          \E k \in RelocSections(o) :
              /\ Cardinality({ j \in RelocSections(o) : j <= k }) = i
              /\ objFile.relocations[i].reloc_type = REL32
              /\ objFile.relocations[i].offset = 1 + PayloadOffset(o, k)

Encoded == [o \in SynObjFiles |-> Encode(o)]

InitRoundTrip ==
    /\ data \in { Encoded[o] : o \in SynObjFiles }
    /\ index = 0
    /\ objFile = PsyqObjFile
    /\ pc = "start"
    /\ err = ""
    /\ trace = <<>>
    /\ first = NoEarlierView

SpecRoundTrip == InitRoundTrip /\ [][Next]_vars

\* C13: parsing the encoding of a synthetic object file does not fail and
\* ends with a model equal to it.
C13_RoundTrip ==
    \A o \in SynObjFiles :
        data = Encoded[o] => (~Failed /\ (pc = "done" => RoundTripEqual(o)))

\* ------------------------------------------------------------ parsing twice
\* A view that shares the ObjectFile of the view before it instead of
\* building its own.
ReopenObjFile_Shared == objFile

\* self.objFile = PsyqObjFile(): every view starts from its own empty model.
ReopenObjFile == PsyqObjFile

\* The host builds a second OBJView over the same data once the first has
\* ended, keeping what the first ended with: __init__ runs again.
Reopen ==
    /\ pc \in {"done", "error"}
    /\ ~first.parsed
    /\ first' = [parsed |-> TRUE, objFile |-> objFile, err |-> err]
    /\ objFile' = ReopenObjFile
    /\ index' = 0
    /\ pc' = "start"
    /\ err' = ""
    /\ trace' = <<>>
    /\ UNCHANGED data

NextTwice == Next \/ Reopen

SpecTwice == Init /\ [][NextTwice]_vars

\* C14: the second parse of a buffer ends as the first did: the same
\* ObjectFile (nothing duplicated, dropped or changed) and the same outcome.
C14_SecondParseEqual ==
    (first.parsed /\ pc \in {"done", "error"})
    => (objFile = first.objFile /\ err = first.err)

\* C14 witness: a buffer with a section, a payload and an import has been
\* parsed to its end a second time.
C14_Witness ==
    /\ first.parsed
    /\ pc = "done"
    /\ objFile.imports # <<>>
    /\ \E k \in DOMAIN objFile.sections : objFile.sections[k].size > 0

\* ------------------------------------------------------- error positions
\* C15: when the dispatcher reads an unknown opcode the parse fails and the
\* cursor is at the offset of that opcode byte, not after it.
C15_UnknownOpcodeOffset ==
    (trace # <<>> /\ Last.op \notin KnownOpcodes)
    => (Failed /\ index = Last.pos)

\* ------------------------------------------------------------ the section map
\* C16: no step removes a section; a SECTION record (its index and group
\* fields whole) puts an entry with offset 0 and size 0 under its index,
\* replacing the entry that was there and leaving the others alone; and an
\* entry changes otherwise only by a BYTES record on the current section.
C16_SectionsGrowLastWriteWins ==
    [][/\ DOMAIN objFile.sections \subseteq DOMAIN objFile'.sections
       /\ (/\ pc = "scan"
           /\ index < Len(data)
           /\ Opcode = SECTION
           /\ Len(Slice(index + 1, 4)) = 4)
          => LET p == index
                 idx == data[p + 2] + 256 * data[p + 3]
             IN  /\ pc' = "scan"
                 /\ DOMAIN objFile'.sections = DOMAIN objFile.sections \cup {idx}
                 /\ objFile'.sections[idx] =
                        [index |-> idx,
                         group |-> data[p + 4] + 256 * data[p + 5],
                         alignment |-> IntFromBytes(Slice(p + 5, 1)),
                         name |-> Slice(p + 7, IntFromBytes(Slice(p + 6, 1))),
                         offset |-> 0, size |-> 0]
                 /\ \A k \in DOMAIN objFile.sections \ {idx} :
                        objFile'.sections[k] = objFile.sections[k]
       /\ \A k \in DOMAIN objFile.sections :
              objFile'.sections[k] # objFile.sections[k]
              => \/ Opcode = SECTION
                 \/ Opcode = BYTES /\ k = objFile.current_section]_vars

\* C16 witness: SECTION 0, a BYTES record into it, then a second SECTION 0
\* with another group: the entry is the second one, with offset and size 0.
C16_Witness ==
    /\ Len(trace) = 3
    /\ ~Failed
    /\ trace[1] = [pos |-> 4, op |-> SECTION]
    /\ trace[2].op = BYTES
    /\ trace[3].op = SECTION
    /\ data[trace[2].pos + 2] > 0
    /\ index <= Len(data)
    /\ data[9] = 0
    /\ DOMAIN objFile.sections = {0}
    /\ objFile.sections[0].group = 1
    /\ objFile.sections[0].offset = 0
    /\ objFile.sections[0].size = 0

\* -------------------------------------------------------- the symbol lists
\* The IMPORTED_SYMBOL and EXPORTED_SYMBOL records as they lie in the buffer.
ImportAt(p) ==
    [index |-> Slice(p + 1, 2),
     name |-> Slice(p + 4, IntFromBytes(Slice(p + 3, 1)))]
ExportAt(p) ==
    [index |-> Slice(p + 1, 2),
     section_index |-> Slice(p + 3, 2),
     offset |-> LET w == Slice(p + 5, 4)
                IN  w[1] + 256 * w[2] + 65536 * w[3] + 16777216 * w[4],
     name |-> Slice(p + 10, IntFromBytes(Slice(p + 9, 1)))]

\* The first n opcodes read: has the n-th been decoded without an error?
DecodedAt(n) == ~(n = Len(trace) /\ Failed)

\* The IMPORTED_SYMBOL (EXPORTED_SYMBOL) records decoded among the first n
\* opcodes read, in stream order.
RECURSIVE DecodedImports(_)
DecodedImports(n) ==
    IF n = 0 THEN <<>>
    ELSE IF trace[n].op = IMPORTED_SYMBOL /\ DecodedAt(n)
         THEN Append(DecodedImports(n - 1), ImportAt(trace[n].pos))
    ELSE DecodedImports(n - 1)

RECURSIVE DecodedExports(_)
DecodedExports(n) ==
    IF n = 0 THEN <<>>
    ELSE IF trace[n].op = EXPORTED_SYMBOL /\ DecodedAt(n)
         THEN Append(DecodedExports(n - 1), ExportAt(trace[n].pos))
    ELSE DecodedExports(n - 1)

\* C17: after any prefix of the stream, imports is exactly the sequence of
\* IMPORTED_SYMBOL records decoded so far, in stream order, and exports that
\* of the EXPORTED_SYMBOL records; repeated indices stay separate entries.
C17_SymbolListsInDecodeOrder ==
    /\ objFile.imports = DecodedImports(Len(trace))
    /\ objFile.exports = DecodedExports(Len(trace))

\* C17 witness: two imports with the same index, or with the larger index
\* first, and an export have been decoded.
C17_Witness ==
    /\ Len(objFile.imports) = 2
    /\ Len(objFile.imports[1].index) = 2
    /\ Len(objFile.imports[2].index) = 2
    /\ UnpackH(objFile.imports[1].index) >= UnpackH(objFile.imports[2].index)
    /\ Len(objFile.exports) = 1
    /\ index <= Len(data)

\* C18: an EXPORTED_SYMBOL record (its index, section_index and offset fields
\* whole) whose section_index names no section defined so far is decoded
\* without error: the export is appended, and neither the section map nor
\* current_section changes.
C18_ExportNeedsNoSection ==
    [][(/\ pc = "scan"
        /\ index < Len(data)
        /\ Opcode = EXPORTED_SYMBOL
        /\ Len(Slice(index + 1, 8)) = 8
        /\ data[index + 4] + 256 * data[index + 5] \notin DOMAIN objFile.sections)
       => (/\ pc' = "scan"
           /\ err' = ""
           /\ objFile'.exports = Append(objFile.exports, ExportAt(index))
           /\ objFile'.sections = objFile.sections
           /\ objFile'.current_section = objFile.current_section
           /\ objFile'.imports = objFile.imports)]_vars

\* C18 witness: an export naming section 5 has been decoded while another
\* section exists and no section 5 does.
C18_Witness ==
    /\ trace # <<>>
    /\ Last.op = EXPORTED_SYMBOL
    /\ ~Failed
    /\ index <= Len(data)
    /\ objFile.sections # <<>>
    /\ objFile.exports # <<>>
    /\ UnpackH(objFile.exports[Len(objFile.exports)].section_index)
           \notin DOMAIN objFile.sections

\* ------------------------------------------------------- the current section
Scanning(op) == pc = "scan" /\ index < Len(data) /\ Opcode = op

\* C19: a SWITCH record (its u16 whole) never fails and sets current_section
\* to its value, whether or not a section with that index exists; a BYTES or
\* RELOCATION record (its fixed fields whole) fails exactly when sections has
\* no entry for current_section at that moment, and the failure is the
\* explicit NoCurrentSection, not the KeyError of an unguarded lookup.
C19_SwitchValidatedAtUse ==
    [][/\ (Scanning(SWITCH) /\ Len(Slice(index + 1, 2)) = 2)
          => (/\ pc' = "scan"
              /\ objFile'.current_section = data[index + 2] + 256 * data[index + 3]
              /\ objFile'.sections = objFile.sections)
       /\ ((Scanning(BYTES) /\ Len(Slice(index + 1, 2)) = 2)
              \/ (Scanning(RELOCATION) /\ Len(Slice(index + 1, 3)) = 3))
          => (/\ (pc' = "error") = ~HasCurrentSection
              /\ pc' = "error" => (err' = "NoCurrentSection" /\ objFile' = objFile)
              /\ pc' # "error" => pc' = "scan")]_vars

\* --------------------------------------------------------------- termination
\* The buffers of the termination check: one record per branch of
\* resolve_opcode, the zero-length ones included (an import with an empty
\* name, a BYTES record of size 0, the one-byte END and unknown-opcode
\* records), since those are the records that move the cursor least.
LiveChunks ==
    { <<END>>,
      <<PROGRAMTYPE, 7>>,
      <<SECTION, 0, 0, 0, 0, 8, 1, 97>>,
      <<IMPORTED_SYMBOL, 1, 0, 0>>,
      <<EXPORTED_SYMBOL, 4, 0, 5, 0, 9, 0, 0, 0, 1, 99>>,
      <<SWITCH, 0, 0>>,
      <<BYTES, 0, 0>>,
      <<RELOCATION, REL32, 1, 0, SYMBOL, 3, 0>>,
      <<ZEROES>> }

LiveBuffers ==
    { Cut(Header \o Flatten(rs), c) :
        rs \in UNION { [1..n -> LiveChunks] : n \in 0..MaxRecords },
        c \in 0..MaxCut }

InitLive ==
    /\ data \in LiveBuffers
    /\ index = 0
    /\ objFile = PsyqObjFile
    /\ pc = "start"
    /\ err = ""
    /\ trace = <<>>
    /\ first = NoEarlierView

\* parse() is a synchronous loop: while a step is possible, one is taken.
SpecLive == InitLive /\ [][Next]_vars /\ WF_vars(Next)

\* C20: every call of the dispatcher moves the cursor forward by at least one
\* byte, and every parse ends: it returns or an exception ends it.
C20_Terminates ==
    /\ [][trace' # trace => index' >= index + 1]_vars
    /\ <>(pc \in {"done", "error"})

\* C20 witness: a parse has returned after reading an unknown opcode and an
\* import with a zero-length name.
C20_Witness ==
    /\ pc = "done"
    /\ \E k \in 1..Len(trace) : trace[k].op \notin KnownOpcodes
    /\ \E i \in 1..Len(objFile.imports) :
          /\ Len(objFile.imports[i].index) = 2
          /\ objFile.imports[i].name = <<>>
    /\ index = Len(data)

====
